---- MODULE Spec2Model ----
(***************************************************************************)
(* Solvers of the repository, one section per crate.                       *)
(*                                                                         *)
(* Day 4 grid scan (src/day-4/src/lib.rs): xmas_count streams the lines of *)
(* a file through a 3-row window (vec_init, vec_update) and counts, for    *)
(* every window, the diagonal 3-letter words MAS / SAM (count_verticals,   *)
(* form_word).                                                             *)
(*                                                                         *)
(* A row is a sequence of one-character strings (the rows are ASCII, so a  *)
(* byte index and a character index agree).                                *)
(*                                                                         *)
(* Days 1, 2, 3 and 5 (src/day-N/src/lib.rs) are functions from an         *)
(* argument to a returned value: each has a specification that draws the   *)
(* argument, arg, and whose actions call the function and keep what it     *)
(* returned in ret.                                                        *)
(***************************************************************************)
EXTENDS Integers, Sequences, FiniteSets, TLC

VARIABLES
    src,        \* the lines of the input file, in order
    errAt,      \* 0, or the 1-based number of the read that fails
    pc,         \* position in xmas_count: Open, Priming, Scanning, Done, Failed
    pos,        \* lines_iter: how many items the iterator has yielded
    lines_vec,  \* the 3-row window
    count,      \* the accumulator of xmas_count
    advances,   \* history: completed calls of vec_update
    result,     \* the value xmas_count returned
    fw_idx,     \* form_word called on its own: idx argument
    fw_dir,     \* form_word called on its own: dir argument
    fw_out,     \* form_word called on its own: returned String, or NoWord
    arg,        \* days 1, 2, 3, 5: the argument of the function called
    ret         \* days 1, 2, 3, 5: the value the function returned, or NoRet

vars == <<src, errAt, pc, pos, lines_vec, count, advances, result,
          fw_idx, fw_dir, fw_out, arg, ret>>

----------------------------------------------------------------------------
(* Bounds of the model *)

MaxRows == 4

(* The empty row: String::new() *)
Empty == <<>>

(* Rows the bounded sources are built from *)
RowPool ==
    { Empty,
      <<"M","A","S">>,
      <<"S","A","M">>,
      <<"X","M","A","S">>,
      <<"M","A">>,
      <<"S">> }

(* The 10x10 example grid of data/input_test_9.txt *)
Grid10 ==
    << <<"M","M","M","S","X","X","M","A","S","M">>,
       <<"M","S","A","M","X","M","S","M","S","A">>,
       <<"A","M","X","S","X","M","A","A","M","M">>,
       <<"M","S","A","M","A","S","M","S","M","X">>,
       <<"X","M","A","S","A","M","X","A","M","M">>,
       <<"X","X","A","M","M","X","X","A","M","A">>,
       <<"S","M","S","M","S","A","S","X","S","S">>,
       <<"S","A","X","A","M","A","S","A","A","A">>,
       <<"M","A","M","M","M","X","M","M","M","M">>,
       <<"M","X","M","X","A","X","M","A","S","X">> >>

(* A grid with a blank line between real rows *)
GridBlank ==
    << <<"M","A","S">>, <<"M","A","S">>, <<"M","A","S">>, Empty,
       <<"S","A","M">>, <<"S","A","M">>, <<"S","A","M">> >>

SeqsUpTo(S, n) == UNION { [1..k -> S] : k \in 0..n }

(* A file whose only line is XMASAMXAMM *)
GridXmasRow == << Grid10[5] >>

Sources == SeqsUpTo(RowPool, MaxRows) \cup {Grid10, GridBlank, GridXmasRow}

(* The window of test_form_word_right_diag / _left_diag / _vertical *)
TestWindow == SubSeq(Grid10, 1, 3)

(* Arguments of form_word called on its own *)
Windows == [1..3 -> RowPool] \cup [1..2 -> RowPool] \cup {TestWindow}

Dirs == {-2, -1, 0, 1, 2}

NoWord == <<"-">>

NoArg == <<>>

NoRet == [tag |-> "None"]

----------------------------------------------------------------------------
(* form_word: one character from each row, bottom row first *)

RECURSIVE form_word_from(_, _, _, _, _)
form_word_from(v, idx, dir, i, s) ==
    IF i = 3 THEN s
    ELSE LET new_idx == idx + i * dir
             row     == v[3 - i]
         IN  IF new_idx < 0 THEN s
             ELSE IF new_idx + 1 > Len(row) THEN s
             ELSE form_word_from(v, idx, dir, i + 1, Append(s, row[new_idx + 1]))

(* faulty variant: the rows are read top row first *)
RECURSIVE form_word_TopDown_from(_, _, _, _, _)
form_word_TopDown_from(v, idx, dir, i, s) ==
    IF i = 3 THEN s
    ELSE LET new_idx == idx + i * dir
             row     == v[i + 1]
         IN  IF new_idx < 0 THEN s
             ELSE IF new_idx + 1 > Len(row) THEN s
             ELSE form_word_TopDown_from(v, idx, dir, i + 1, Append(s, row[new_idx + 1]))

form_word_TopDown(v, idx, dir) ==
    IF dir \notin {0, -1, 1} THEN Empty
    ELSE IF Len(v) < 3 THEN Empty
    ELSE form_word_TopDown_from(v, idx, dir, 0, Empty)

(* faulty variant: a negative column is clamped to column 0 instead of ending the word *)
RECURSIVE form_word_Clamped_from(_, _, _, _, _)
form_word_Clamped_from(v, idx, dir, i, s) ==
    IF i = 3 THEN s
    ELSE LET raw_idx == idx + i * dir
             new_idx == IF raw_idx < 0 THEN 0 ELSE raw_idx
             row     == v[3 - i]
         IN  IF new_idx + 1 > Len(row) THEN s
             ELSE form_word_Clamped_from(v, idx, dir, i + 1, Append(s, row[new_idx + 1]))

form_word_Clamped(v, idx, dir) ==
    IF dir \notin {0, -1, 1} THEN Empty
    ELSE IF Len(v) < 3 THEN Empty
    ELSE form_word_Clamped_from(v, idx, dir, 0, Empty)

form_word(v, idx, dir) ==
    IF dir \notin {0, -1, 1} THEN Empty
    ELSE IF Len(v) < 3 THEN Empty
    ELSE form_word_from(v, idx, dir, 0, Empty)

(* str::matches(pat).count(): non-overlapping occurrences, left to right *)
RECURSIVE matches_count(_, _)
matches_count(s, pat) ==
    IF Len(s) < Len(pat) THEN 0
    ELSE IF SubSeq(s, 1, Len(pat)) = pat
         THEN 1 + matches_count(SubSeq(s, Len(pat) + 1, Len(s)), pat)
         ELSE matches_count(SubSeq(s, 2, Len(s)), pat)

MAS == <<"M","A","S">>

SAM == <<"S","A","M">>

RECURSIVE count_verticals_from(_, _)
count_verticals_from(v, i) ==
    IF i >= Len(v[3]) THEN 0
    ELSE matches_count(form_word(v, i, -1), MAS)
       + matches_count(form_word(v, i, -1), SAM)
       + matches_count(form_word(v, i, 1), MAS)
       + matches_count(form_word(v, i, 1), SAM)
       + count_verticals_from(v, i + 1)

(* faulty variant: only MAS is counted, not SAM *)
RECURSIVE count_verticals_MasOnly_from(_, _)
count_verticals_MasOnly_from(v, i) ==
    IF i >= Len(v[3]) THEN 0
    ELSE matches_count(form_word(v, i, -1), MAS)
       + matches_count(form_word(v, i, 1), MAS)
       + count_verticals_MasOnly_from(v, i + 1)

count_verticals_MasOnly(v) ==
    IF Len(v) < 3 THEN 0 ELSE count_verticals_MasOnly_from(v, 0)

(* faulty variant: the last column of the bottom row is not used as an anchor *)
RECURSIVE count_verticals_ShortLoop_from(_, _)
count_verticals_ShortLoop_from(v, i) ==
    IF i >= Len(v[3]) - 1 THEN 0
    ELSE matches_count(form_word(v, i, -1), MAS)
       + matches_count(form_word(v, i, -1), SAM)
       + matches_count(form_word(v, i, 1), MAS)
       + matches_count(form_word(v, i, 1), SAM)
       + count_verticals_ShortLoop_from(v, i + 1)

count_verticals_ShortLoop(v) ==
    IF Len(v) < 3 THEN 0 ELSE count_verticals_ShortLoop_from(v, 0)

(* faulty variant: the vertical word (dir 0) is counted as well *)
RECURSIVE count_verticals_WithVertical_from(_, _)
count_verticals_WithVertical_from(v, i) ==
    IF i >= Len(v[3]) THEN 0
    ELSE matches_count(form_word(v, i, -1), MAS)
       + matches_count(form_word(v, i, -1), SAM)
       + matches_count(form_word(v, i, 0), MAS)
       + matches_count(form_word(v, i, 0), SAM)
       + matches_count(form_word(v, i, 1), MAS)
       + matches_count(form_word(v, i, 1), SAM)
       + count_verticals_WithVertical_from(v, i + 1)

count_verticals_WithVertical(v) ==
    IF Len(v) < 3 THEN 0 ELSE count_verticals_WithVertical_from(v, 0)

count_verticals(v) ==
    IF Len(v) < 3 THEN 0 ELSE count_verticals_from(v, 0)

----------------------------------------------------------------------------
(* lines_iter.next(): [kind, row, pos] *)

iter_next(p) ==
    IF p >= Len(src) THEN [kind |-> "None", row |-> Empty, pos |-> p]
    ELSE IF p + 1 = errAt THEN [kind |-> "Err", row |-> Empty, pos |-> p + 1]
    ELSE [kind |-> "Some", row |-> src[p + 1], pos |-> p + 1]

(* faulty variant: a failed read is treated as the end of the input *)
vec_update_IgnoreError(v, p) ==
    LET shifted == <<v[2], v[3], v[3]>>
        opt     == iter_next(p)
        w       == [shifted EXCEPT ![3] = opt.row]
    IN  [ok |-> TRUE, v |-> w, ret |-> w, pos |-> opt.pos]

(* faulty variant: at the end of the input the last row stays in place *)
vec_update_KeepLast(v, p) ==
    LET shifted == <<v[2], v[3], v[3]>>
        opt     == iter_next(p)
    IN  IF opt.kind = "Err"
        THEN [ok |-> FALSE, v |-> shifted, ret |-> shifted, pos |-> opt.pos]
        ELSE IF opt.kind = "None"
        THEN [ok |-> TRUE, v |-> shifted, ret |-> shifted, pos |-> opt.pos]
        ELSE LET w == [shifted EXCEPT ![3] = opt.row]
             IN  [ok |-> TRUE, v |-> w, ret |-> w, pos |-> opt.pos]

(* faulty variant: the two shifting assignments are swapped *)
vec_update_WrongOrder(v, p) ==
    LET shifted == <<v[3], v[3], v[3]>>
        opt     == iter_next(p)
    IN  IF opt.kind = "Err"
        THEN [ok |-> FALSE, v |-> shifted, ret |-> shifted, pos |-> opt.pos]
        ELSE LET w == [shifted EXCEPT ![3] = opt.row]
             IN  [ok |-> TRUE, v |-> w, ret |-> w, pos |-> opt.pos]

(* vec_update: [ok, v (the window in place), ret (the returned copy), pos] *)
vec_update(v, p) ==
    LET shifted == <<v[2], v[3], v[3]>>
        opt     == iter_next(p)
    IN  IF opt.kind = "Err"
        THEN [ok |-> FALSE, v |-> shifted, ret |-> shifted, pos |-> opt.pos]
        ELSE LET w == [shifted EXCEPT ![3] = opt.row]
             IN  [ok |-> TRUE, v |-> w, ret |-> w, pos |-> opt.pos]

(* vec_init: [ok, v, pos] *)
RECURSIVE vec_init_from(_, _, _)
vec_init_from(v, p, k) ==
    IF k = 3 THEN [ok |-> TRUE, v |-> v, pos |-> p]
    ELSE LET opt == iter_next(p)
         IN  IF opt.kind = "Err" THEN [ok |-> FALSE, v |-> v, pos |-> opt.pos]
             ELSE vec_init_from(Append(v, opt.row), opt.pos, k + 1)

(* faulty variant: a shortfall is filled with the last row read *)
RECURSIVE vec_init_PadRepeat_from(_, _, _)
vec_init_PadRepeat_from(v, p, k) ==
    IF k = 3 THEN [ok |-> TRUE, v |-> v, pos |-> p]
    ELSE LET opt == iter_next(p)
         IN  IF opt.kind = "Err" THEN [ok |-> FALSE, v |-> v, pos |-> opt.pos]
             ELSE IF opt.kind = "None" /\ Len(v) > 0
             THEN vec_init_PadRepeat_from(Append(v, v[Len(v)]), opt.pos, k + 1)
             ELSE vec_init_PadRepeat_from(Append(v, opt.row), opt.pos, k + 1)

vec_init_PadRepeat(p) == vec_init_PadRepeat_from(Empty, p, 0)

(* faulty variant: a shortfall is filled at the head of the vector *)
RECURSIVE vec_init_PadFront_from(_, _, _)
vec_init_PadFront_from(v, p, k) ==
    IF k = 3 THEN [ok |-> TRUE, v |-> v, pos |-> p]
    ELSE LET opt == iter_next(p)
         IN  IF opt.kind = "Err" THEN [ok |-> FALSE, v |-> v, pos |-> opt.pos]
             ELSE IF opt.kind = "None"
             THEN vec_init_PadFront_from(<<Empty>> \o v, opt.pos, k + 1)
             ELSE vec_init_PadFront_from(Append(v, opt.row), opt.pos, k + 1)

vec_init_PadFront(p) == vec_init_PadFront_from(Empty, p, 0)

vec_init(p) == vec_init_from(Empty, p, 0)

----------------------------------------------------------------------------
(* xmas_count *)

(* faulty variant: the loop runs while any row of the window is non-empty *)
window_has_rows_AnyRow(v) == \E k \in 1..3 : v[k] # Empty

(* the loop condition: !lines_vec[0].is_empty() *)
window_has_rows(v) == v[1] # Empty

NoResult == [tag |-> "None"]

OkResult(n) == [tag |-> "Ok", count |-> n]

ErrResult(msg) == [tag |-> "Err", msg |-> msg]

Init ==
    /\ src \in Sources
    /\ errAt \in 0..Len(src)
    /\ pc = "Open"
    /\ pos = 0
    /\ lines_vec = Empty
    /\ count = 0
    /\ advances = 0
    /\ result = NoResult
    /\ fw_idx = 0
    /\ fw_dir = 0
    /\ fw_out = NoWord
    /\ arg = NoArg
    /\ ret = NoRet

ScanUnchanged == UNCHANGED <<fw_idx, fw_dir, fw_out, arg, ret>>

(* File::open(input_path) succeeds; reader.lines() *)
OpenOk ==
    /\ pc = "Open"
    /\ pc' = "Priming"
    /\ UNCHANGED <<src, errAt, pos, lines_vec, count, advances, result>>
    /\ ScanUnchanged

(* File::open(input_path) fails: the error is returned *)
OpenFail ==
    /\ pc = "Open"
    /\ pc' = "Failed"
    /\ result' = ErrResult("failed to open file")
    /\ UNCHANGED <<src, errAt, pos, lines_vec, count, advances>>
    /\ ScanUnchanged

(* let mut lines_vec = vec_init(&mut lines_iter)?; *)
Prime ==
    /\ pc = "Priming"
    /\ LET r == vec_init(pos)
       IN  /\ pos' = r.pos
           /\ IF r.ok
              THEN /\ lines_vec' = r.v
                   /\ pc' = "Scanning"
                   /\ result' = result
              ELSE /\ lines_vec' = lines_vec
                   /\ pc' = "Failed"
                   /\ result' = ErrResult("failed reading line")
    /\ UNCHANGED <<src, errAt, count, advances>>
    /\ ScanUnchanged

(* one iteration of the while loop *)
ScanStep ==
    /\ pc = "Scanning"
    /\ window_has_rows(lines_vec)
    /\ count' = count + count_verticals(lines_vec)
    /\ LET r == vec_update(lines_vec, pos)
       IN  /\ pos' = r.pos
           /\ IF r.ok
              THEN /\ lines_vec' = r.ret
                   /\ advances' = advances + 1
                   /\ pc' = "Scanning"
                   /\ result' = result
              ELSE /\ lines_vec' = r.v
                   /\ advances' = advances
                   /\ pc' = "Failed"
                   /\ result' = ErrResult("failed reading line")
    /\ UNCHANGED <<src, errAt>>
    /\ ScanUnchanged

(* the loop condition fails: Ok(count) *)
ScanExit ==
    /\ pc = "Scanning"
    /\ ~window_has_rows(lines_vec)
    /\ pc' = "Done"
    /\ result' = OkResult(count)
    /\ UNCHANGED <<src, errAt, pos, lines_vec, count, advances>>
    /\ ScanUnchanged

xmas_count == OpenOk \/ OpenFail \/ Prime \/ ScanStep \/ ScanExit

Next == xmas_count

Spec == Init /\ [][Next]_vars

FairSpec == Spec /\ WF_vars(Next)

----------------------------------------------------------------------------
(* form_word called on its own, as the unit tests call it *)

InitFormWord ==
    /\ src = Empty
    /\ errAt = 0
    /\ pc = "FormWord"
    /\ pos = 0
    /\ lines_vec \in Windows
    /\ count = 0
    /\ advances = 0
    /\ result = NoResult
    /\ fw_idx = 0
    /\ fw_dir = 0
    /\ fw_out = NoWord
    /\ arg = NoArg
    /\ ret = NoRet

FormWordCall ==
    /\ pc = "FormWord"
    /\ \E idx \in 0..(Len(lines_vec[Len(lines_vec)]) + 1), dir \in Dirs :
          /\ fw_idx' = idx
          /\ fw_dir' = dir
          /\ fw_out' = form_word(lines_vec, idx, dir)
    /\ pc' = "Formed"
    /\ UNCHANGED <<src, errAt, pos, lines_vec, count, advances, result, arg, ret>>

NextFormWord == FormWordCall

SpecFormWord == InitFormWord /\ [][NextFormWord]_vars

----------------------------------------------------------------------------
(* Reference counts over a whole grid g (rows and columns numbered from 0) *)

Cell(g, r, c) == g[r + 1][c + 1]

InGrid(g, r, c) ==
    /\ r >= 0 /\ r < Len(g)
    /\ c >= 0 /\ c < Len(g[r + 1])

MaxWidth(g) ==
    IF Len(g) = 0 THEN 0
    ELSE CHOOSE w \in {Len(g[k]) : k \in 1..Len(g)} :
             \A k \in 1..Len(g) : Len(g[k]) <= w

(* the triples (r, c, d): cells (r+2, c), (r+1, c+d), (r, c+2d) spell MAS or SAM *)
DiagTriples(g) ==
    { t \in (0..(Len(g) - 1)) \X (0..(MaxWidth(g) - 1)) \X {-1, 1} :
        LET r == t[1]
            c == t[2]
            d == t[3]
        IN  /\ InGrid(g, r + 2, c)
            /\ InGrid(g, r + 1, c + d)
            /\ InGrid(g, r, c + 2 * d)
            /\ <<Cell(g, r + 2, c), Cell(g, r + 1, c + d), Cell(g, r, c + 2 * d)>>
                   \in {MAS, SAM} }

(* the centres (r, c) of a cross: both diagonals through it read MAS or SAM *)
Crosses(g) ==
    { t \in (0..(Len(g) - 1)) \X (0..(MaxWidth(g) - 1)) :
        LET r == t[1]
            c == t[2]
        IN  /\ InGrid(g, r - 1, c - 1) /\ InGrid(g, r - 1, c + 1)
            /\ InGrid(g, r, c)
            /\ InGrid(g, r + 1, c - 1) /\ InGrid(g, r + 1, c + 1)
            /\ <<Cell(g, r - 1, c - 1), Cell(g, r, c), Cell(g, r + 1, c + 1)>>
                   \in {MAS, SAM}
            /\ <<Cell(g, r - 1, c + 1), Cell(g, r, c), Cell(g, r + 1, c - 1)>>
                   \in {MAS, SAM} }

XMAS == <<"X","M","A","S">>

(* the occurrences (r, c, dr, dc) of XMAS starting at (r, c) in direction (dr, dc) *)
XmasOccurrences(g) ==
    { t \in (0..(Len(g) - 1)) \X (0..(MaxWidth(g) - 1)) \X {-1, 0, 1} \X {-1, 0, 1} :
        LET r  == t[1]
            c  == t[2]
            dr == t[3]
            dc == t[4]
        IN  /\ <<dr, dc>> # <<0, 0>>
            /\ \A k \in 0..3 :
                  /\ InGrid(g, r + k * dr, c + k * dc)
                  /\ Cell(g, r + k * dr, c + k * dc) = XMAS[k + 1] }

NonEmptyRows(g) == \A k \in 1..Len(g) : g[k] # Empty

----------------------------------------------------------------------------
(* C1 as stated: over the 10x10 example grid xmas_count returns 9, one per
   3x3 neighbourhood whose two crossing diagonals both read MAS or SAM. *)
C1_CrossCountIsNine ==
    (pc = "Done" /\ src = Grid10) =>
        /\ result = OkResult(9)
        /\ result = OkResult(Cardinality(Crosses(src)))

(* C1 amended: over the 10x10 example grid xmas_count returns 25, one per
   diagonal 3-cell segment that reads MAS or SAM (the two arms of a cross are
   counted separately, and an arm counts without its crossing arm). *)
C1_DiagonalCountIs25 ==
    (pc = "Done" /\ src = Grid10) =>
        /\ result = OkResult(25)
        /\ Cardinality(DiagTriples(Grid10)) = 25
        /\ Cardinality(Crosses(Grid10)) = 9

C1_Witness ==
    /\ pc = "Done"
    /\ src = Grid10
    /\ advances = 10
    /\ result.tag = "Ok"

----------------------------------------------------------------------------
(* C2: for every grid of non-empty rows read without error xmas_count returns
   the number of triples (r, c, d), d in {-1, +1}, whose cells (r+2, c),
   (r+1, c+d), (r, c+2d) all exist and spell MAS or SAM; every window counts
   exactly its own diagonal segments, a window with a sentinel row counts 0;
   the example grid gives 25 and the window of rows 2..4 of it gives 4. *)
C2_CountIsDiagonalSegments ==
    /\ (pc = "Done" /\ NonEmptyRows(src)) =>
          result = OkResult(Cardinality(DiagTriples(src)))
    /\ pc = "Scanning" =>
          /\ count_verticals(lines_vec) = Cardinality(DiagTriples(lines_vec))
          /\ (\E k \in 1..3 : lines_vec[k] = Empty) => count_verticals(lines_vec) = 0
    /\ (pc = "Done" /\ src = Grid10) => result.count = 25
    /\ (pc = "Scanning" /\ lines_vec = SubSeq(Grid10, 3, 5)) =>
          count_verticals(lines_vec) = 4

C2_Witness ==
    /\ pc = "Done"
    /\ src \in [1..4 -> RowPool]
    /\ NonEmptyRows(src)
    /\ src[1] # src[2]
    /\ result = OkResult(3)

----------------------------------------------------------------------------
(* C8 as stated: xmas_count counts the occurrences of XMAS horizontally,
   vertically and diagonally, forwards and backwards; a file whose only row
   is XMASAMXAMM gives 2 (XMAS forwards and SAMX backwards). *)
C8_CountsXmasWord ==
    /\ (pc = "Done" /\ NonEmptyRows(src)) =>
          result = OkResult(Cardinality(XmasOccurrences(src)))
    /\ (pc = "Done" /\ src = GridXmasRow) => result = OkResult(2)

----------------------------------------------------------------------------
(* the columns form_word reads: row v[3 - i] at column idx + i * dir *)
ColumnAt(idx, dir, i) == idx + i * dir

ReadOk(v, idx, dir, i) ==
    /\ ColumnAt(idx, dir, i) >= 0
    /\ ColumnAt(idx, dir, i) < Len(v[3 - i])

(* how many reads succeed before the first failing one *)
ReadsBeforeFailure(v, idx, dir) ==
    IF ~ReadOk(v, idx, dir, 0) THEN 0
    ELSE IF ~ReadOk(v, idx, dir, 1) THEN 1
    ELSE IF ~ReadOk(v, idx, dir, 2) THEN 2
    ELSE 3

CharAt(v, idx, dir, i) == v[3 - i][ColumnAt(idx, dir, i) + 1]

(* C3: on a 3-row window, for dir in {0, -1, +1} and columns idx, idx+dir,
   idx+2*dir all inside their rows, form_word returns the 3 characters
   window[2][idx], window[1][idx+dir], window[0][idx+2*dir] (bottom row
   first); on the test window at idx 5 that is MSA, MXS and MMX. *)
C3_FormWordReadsBottomUp ==
    (pc = "Formed" /\ Len(lines_vec) = 3 /\ fw_dir \in {0, -1, 1}) =>
        /\ ReadsBeforeFailure(lines_vec, fw_idx, fw_dir) = 3 =>
              fw_out = << CharAt(lines_vec, fw_idx, fw_dir, 0),
                          CharAt(lines_vec, fw_idx, fw_dir, 1),
                          CharAt(lines_vec, fw_idx, fw_dir, 2) >>
        /\ (lines_vec = TestWindow /\ fw_idx = 5) =>
              /\ fw_dir = 1  => fw_out = <<"M","S","A">>
              /\ fw_dir = -1 => fw_out = <<"M","X","S">>
              /\ fw_dir = 0  => fw_out = <<"M","M","X">>

C3_Witness ==
    /\ pc = "Formed"
    /\ lines_vec = TestWindow
    /\ fw_idx = 5
    /\ fw_dir = -1
    /\ fw_out = <<"M","X","S">>

(* C4: on a 3-row window, for dir in {0, -1, +1}, when one of the columns
   idx + i*dir is negative or at or past the end of its row, form_word
   returns the characters read before the first failing read, fewer than 3,
   which match neither MAS nor SAM. *)
C4_FormWordShortAtEdges ==
    (pc = "Formed" /\ Len(lines_vec) = 3 /\ fw_dir \in {0, -1, 1}
       /\ ReadsBeforeFailure(lines_vec, fw_idx, fw_dir) < 3) =>
        /\ Len(fw_out) < 3
        /\ Len(fw_out) = ReadsBeforeFailure(lines_vec, fw_idx, fw_dir)
        /\ \A i \in 0..(Len(fw_out) - 1) :
              fw_out[i + 1] = CharAt(lines_vec, fw_idx, fw_dir, i)
        /\ matches_count(fw_out, MAS) = 0
        /\ matches_count(fw_out, SAM) = 0

C4_Witness ==
    /\ pc = "Formed"
    /\ Len(lines_vec) = 3
    /\ fw_dir = -1
    /\ fw_idx = 1
    /\ Len(lines_vec[1]) = 3
    /\ fw_out = <<"A","M">>

----------------------------------------------------------------------------
Min(a, b) == IF a < b THEN a ELSE b

(* R(i): the i-th source row (from 0), the empty sentinel past the end *)
RowOrSentinel(i) == IF i < Len(src) THEN src[i + 1] ELSE Empty

(* C5: with fewer than 3 rows and no read error the scan counts nothing and
   returns Ok(0): the window keeps an empty sentinel row in every examined
   window, and the empty source leaves the loop without an iteration. *)
C5_ShortSourceCountsZero ==
    (Len(src) < 3 /\ errAt = 0 /\ pc \in {"Scanning", "Done"}) =>
        /\ count = 0
        /\ \E k \in 1..3 : lines_vec[k] = Empty
        /\ count_verticals(lines_vec) = 0
        /\ pc = "Done" => result = OkResult(0)
        /\ Len(src) = 0 => (advances = 0 /\ lines_vec = <<Empty, Empty, Empty>>)

C5_Witness ==
    /\ pc = "Done"
    /\ src = <<MAS, MAS>>
    /\ advances = 2
    /\ result = OkResult(0)

(* C6: a failing read stops the scan at that read: nothing is read after it,
   the call returns the read error and no count; Ok(count) is returned only
   when every attempted read succeeded, and a returned call does nothing
   more. *)
C6_ReadErrorAborts ==
    /\ (errAt # 0 /\ pos >= errAt) =>
          /\ pos = errAt
          /\ pc = "Failed"
          /\ result = ErrResult("failed reading line")
    /\ pc = "Failed" =>
          /\ result.tag = "Err"
          /\ DOMAIN result = {"tag", "msg"}
          /\ ~ENABLED Next
    /\ pc = "Done" =>
          /\ result = OkResult(count)
          /\ (errAt = 0 \/ pos < errAt)
          /\ ~ENABLED Next
    /\ result.tag = "Ok" => pc = "Done"

C6_Witness ==
    /\ pc = "Failed"
    /\ errAt = 4
    /\ pos = 4
    /\ count > 0
    /\ result = ErrResult("failed reading line")

(* C9: vec_init on n rows without a read error returns 3 rows, the first
   min(3, n) source rows in order and then empty rows, and has consumed
   min(3, n) rows: the next read yields row 3 when it exists. *)
C9_VecInitPrimesWindow ==
    (pc = "Scanning" /\ advances = 0) =>
        /\ Len(lines_vec) = 3
        /\ \A k \in 1..3 :
              lines_vec[k] = (IF k <= Min(3, Len(src)) THEN src[k] ELSE Empty)
        /\ pos = Min(3, Len(src))
        /\ (Len(src) > 3 /\ errAt = 0) =>
              iter_next(pos) = [kind |-> "Some", row |-> src[4], pos |-> 4]

C9_Witness ==
    /\ pc = "Scanning"
    /\ advances = 0
    /\ Len(src) = 2
    /\ lines_vec = <<MAS, SAM, Empty>>
    /\ pos = 2

(* C10: vec_update on [a, b, c] without a read error gives [b, c, x], x the
   next unread row or the empty row at the end of the source; it consumes one
   row, none at the end of the source; the returned vector is the updated
   window. *)
C10_VecUpdateShifts ==
    /\ [][ (pc = "Scanning" /\ pc' = "Scanning") =>
              /\ lines_vec' = <<lines_vec[2], lines_vec[3], RowOrSentinel(pos)>>
              /\ pos' = (IF pos < Len(src) THEN pos + 1 ELSE pos)
              /\ advances' = advances + 1 ]_vars
    /\ [](pc = "Scanning" =>
              (vec_update(lines_vec, pos).ok =>
                   vec_update(lines_vec, pos).ret = vec_update(lines_vec, pos).v))

C10_Witness ==
    /\ pc = "Scanning"
    /\ src = Grid10
    /\ advances = 1
    /\ pos = 4
    /\ lines_vec = SubSeq(Grid10, 2, 4)

(* C7: without a read error the scan terminates, at Window[0] empty; once the
   source is exhausted every appended row is the empty sentinel and at most 3
   further advances are made. *)
C7_ScanTerminates ==
    /\ [](pc = "Priming" /\ errAt = 0 => <>(pc = "Done" /\ lines_vec[1] = Empty))
    /\ [][ (pc = "Scanning" /\ pc' = "Scanning" /\ pos = Len(src)) =>
              (lines_vec'[3] = Empty /\ pos' = pos) ]_vars
    /\ [](errAt = 0 /\ pc \in {"Scanning", "Done"} =>
              advances - (pos - Min(3, Len(src))) <= 3)

C7_Witness ==
    /\ pc = "Done"
    /\ errAt = 0
    /\ NonEmptyRows(src)
    /\ Len(src) = 4
    /\ pos = 4
    /\ advances = 4

----------------------------------------------------------------------------
(* C16: after priming the window always holds 3 rows, and after k successful
   advances it is [R(k), R(k+1), R(k+2)], R(i) the i-th source row or the
   empty sentinel past the end: every row of the window is followed by its
   successor in the source, or by the sentinel. *)
C16_WindowIsConsecutiveRows ==
    pc \in {"Scanning", "Done"} =>
        /\ Len(lines_vec) = 3
        /\ \A i \in 1..3 : lines_vec[i] = RowOrSentinel(advances + i - 1)
        /\ pos = Min(advances + 3, Len(src))

C16_Witness ==
    /\ pc = "Scanning"
    /\ Len(src) = 4
    /\ NonEmptyRows(src)
    /\ advances = 3
    /\ lines_vec = <<src[4], Empty, Empty>>

(* the 0-based index of the first empty row of g, Len(g) when there is none *)
FirstEmptyRow(g) ==
    IF NonEmptyRows(g) THEN Len(g)
    ELSE (CHOOSE k \in 1..Len(g) :
             g[k] = Empty /\ \A m \in 1..(k - 1) : g[m] # Empty) - 1

(* C17: when the source has an empty row at index j, with non-empty rows
   before it and rows after it, the scan stops when that row reaches
   Window[0]: the result is the count over rows 0..j-1 alone, and a diagonal
   lying in the rows after j is never counted. *)
C17_BlankRowEndsScan ==
    (pc = "Done" /\ FirstEmptyRow(src) \in 1..(Len(src) - 2)) =>
        LET j == FirstEmptyRow(src)
        IN  /\ advances = j
            /\ lines_vec[1] = src[j + 1]
            /\ result = OkResult(Cardinality(DiagTriples(SubSeq(src, 1, j))))
            /\ pos = Min(j + 3, Len(src))

C17_Witness ==
    /\ pc = "Done"
    /\ src = GridBlank
    /\ result = OkResult(2)
    /\ Cardinality(DiagTriples(SubSeq(src, 5, 7))) = 2
    /\ pos = 6

(* the anchors (c, d) of window v whose candidate is MAS or SAM *)
MatchingAnchors(v, dirs) ==
    { a \in (0..(Len(v[3]) - 1)) \X dirs : form_word(v, a[1], a[2]) \in {MAS, SAM} }

(* C18: every (anchor column, diagonal direction) candidate adds 1 when it is
   MAS or SAM and 0 otherwise, never 2; so count_verticals(window) is at most
   2 * len(window[2]), and the vertical direction is not counted. *)
C18_OnePerDiagonalCandidate ==
    pc = "Scanning" =>
        /\ count_verticals(lines_vec) = Cardinality(MatchingAnchors(lines_vec, {-1, 1}))
        /\ count_verticals(lines_vec) <= 2 * Len(lines_vec[3])
        /\ \A c \in 0..(Len(lines_vec[3]) - 1) : \A d \in {-1, 1} :
              matches_count(form_word(lines_vec, c, d), MAS)
                + matches_count(form_word(lines_vec, c, d), SAM)
              = (IF form_word(lines_vec, c, d) \in {MAS, SAM} THEN 1 ELSE 0)

C18_Witness ==
    /\ pc = "Scanning"
    /\ lines_vec = SubSeq(Grid10, 5, 7)
    /\ MatchingAnchors(lines_vec, {0}) = {<<9, 0>>}
    /\ count_verticals(lines_vec) = Cardinality(MatchingAnchors(lines_vec, {-1, 1}))

----------------------------------------------------------------------------
(* Values returned by the functions of days 1, 2, 3 and 5 *)

Ok(v) == [tag |-> "Ok", val |-> v]

Err(msg) == [tag |-> "Err", msg |-> msg]

(* the scan variables, unused by the functions of the other days *)
ScanIdle ==
    /\ src = Empty
    /\ errAt = 0
    /\ pos = 0
    /\ lines_vec = Empty
    /\ count = 0
    /\ advances = 0
    /\ result = NoResult
    /\ fw_idx = 0
    /\ fw_dir = 0
    /\ fw_out = NoWord

ScanIdleUnchanged ==
    UNCHANGED <<src, errAt, pos, lines_vec, count, advances, result,
                fw_idx, fw_dir, fw_out>>

----------------------------------------------------------------------------
(* str::parse::<i32>() on a token, a sequence of characters: an optional
   sign, then one or more decimal digits *)

DigitChars == <<"0","1","2","3","4","5","6","7","8","9">>

IsDigit(ch) == \E d \in 1..10 : DigitChars[d] = ch

DigitValue(ch) == (CHOOSE d \in 1..10 : DigitChars[d] = ch) - 1

RECURSIVE digits_value(_, _)
digits_value(tok, acc) ==
    IF tok = <<>> THEN acc
    ELSE digits_value(Tail(tok), 10 * acc + DigitValue(Head(tok)))

I32Max == 2147483647

parse_i32(tok) ==
    LET signed == tok # <<>> /\ Head(tok) \in {"-", "+"}
        digits == IF signed THEN Tail(tok) ELSE tok
    IN  IF digits = <<>> \/ \E k \in 1..Len(digits) : ~IsDigit(digits[k])
        THEN Err("failed parsing")
        ELSE LET n == digits_value(digits, 0)
                 v == IF signed /\ Head(tok) = "-" THEN 0 - n ELSE n
             IN  IF v > I32Max \/ v < 0 - I32Max - 1
                 THEN Err("failed parsing")
                 ELSE Ok(v)

----------------------------------------------------------------------------
(* Day 2 (src/day-2/src/lib.rs): safe reports.  A report is a sequence of
   levels; a line of the file is the sequence of its tokens, the pieces
   between single spaces. *)

MaxLevel == 5

MaxReportLen == 6

Levels == 1..MaxLevel

(* the token of a one-digit level *)
LevelToken(n) == << DigitChars[n + 1] >>

LineOf(report) == [k \in 1..Len(report) |-> LevelToken(report[k])]

(* six reports: two safe as given, two more with one level removed *)
Day2SixReports ==
    << LineOf(<<7, 6, 4, 2, 1>>), LineOf(<<1, 2, 7, 8, 9>>),
       LineOf(<<9, 7, 6, 2, 1>>), LineOf(<<1, 3, 2, 4, 5>>),
       LineOf(<<8, 6, 4, 4, 1>>), LineOf(<<1, 3, 6, 7, 9>>) >>

(* the line "1 2 3 asd 5" of test_report_as_vector_negative *)
Day2BadLine ==
    << <<"1">>, <<"2">>, <<"3">>, <<"a","s","d">>, <<"5">> >>

(* files beside the one-report files: empty, six reports, a line that does
   not parse, a blank line *)
Day2OtherFiles ==
    { <<>>, Day2SixReports, << LineOf(<<1, 2>>), Day2BadLine >>, << <<Empty>> >> }

is_descending(previous_number, current_number) ==
    IF current_number = previous_number THEN FALSE
    ELSE IF current_number > previous_number THEN FALSE
    ELSE LET diff == previous_number - current_number
         IN  ~(diff < 1 \/ diff > 3)

is_ascending(previous_number, current_number) ==
    IF current_number = previous_number THEN FALSE
    ELSE IF current_number < previous_number THEN FALSE
    ELSE LET diff == current_number - previous_number
         IN  ~(diff < 1 \/ diff > 3)

(* safe_report: [safe, idx]; i is the loop index, levels are numbered from 0 *)
RECURSIVE safe_report_from(_, _, _, _)
safe_report_from(report, i, prev_is_ascending, prev_is_descending) ==
    IF i >= Len(report) THEN [safe |-> TRUE, idx |-> 0]
    ELSE LET level_curr == report[i + 1]
             level_prev == report[i]
             asc  == is_ascending(level_prev, level_curr)
             desc == is_descending(level_prev, level_curr)
         IN  IF ~asc /\ ~desc THEN [safe |-> FALSE, idx |-> i - 1]
             ELSE IF i > 1 /\ asc /\ ~prev_is_ascending
                  THEN [safe |-> FALSE, idx |-> i - 1]
             ELSE IF i > 1 /\ desc /\ ~prev_is_descending
                  THEN [safe |-> FALSE, idx |-> i - 1]
             ELSE safe_report_from(report, i + 1, asc, desc)

(* faulty variant: the failing index is the current level, not the previous one *)
RECURSIVE safe_report_CurrentIdx_from(_, _, _, _)
safe_report_CurrentIdx_from(report, i, prev_is_ascending, prev_is_descending) ==
    IF i >= Len(report) THEN [safe |-> TRUE, idx |-> 0]
    ELSE LET level_curr == report[i + 1]
             level_prev == report[i]
             asc  == is_ascending(level_prev, level_curr)
             desc == is_descending(level_prev, level_curr)
         IN  IF ~asc /\ ~desc THEN [safe |-> FALSE, idx |-> i]
             ELSE IF i > 1 /\ asc /\ ~prev_is_ascending
                  THEN [safe |-> FALSE, idx |-> i]
             ELSE IF i > 1 /\ desc /\ ~prev_is_descending
                  THEN [safe |-> FALSE, idx |-> i]
             ELSE safe_report_CurrentIdx_from(report, i + 1, asc, desc)

safe_report_CurrentIdx(report) == safe_report_CurrentIdx_from(report, 1, FALSE, FALSE)

safe_report(report) == safe_report_from(report, 1, FALSE, FALSE)

(* Vec::remove(idx), idx from 0 *)
vec_remove(v, idx) == SubSeq(v, 1, idx) \o SubSeq(v, idx + 2, Len(v))

(* faulty variant: only the level at the failing index is retried *)
problem_dampener_OneRetry(report, fail_idx) ==
    safe_report(vec_remove(report, fail_idx)).safe

(* faulty variant: the level before the failing index is not retried *)
problem_dampener_NoBefore(report, fail_idx) ==
    LET rep_copy == vec_remove(report, fail_idx)
    IN  IF safe_report(rep_copy).safe THEN TRUE
        ELSE IF fail_idx # Len(rep_copy)
                /\ safe_report(vec_remove(report, fail_idx + 1)).safe THEN TRUE
        ELSE FALSE

problem_dampener(report, fail_idx) ==
    LET rep_copy == vec_remove(report, fail_idx)
    IN  IF safe_report(rep_copy).safe THEN TRUE
        ELSE IF fail_idx # 0
                /\ safe_report(vec_remove(report, fail_idx - 1)).safe THEN TRUE
        ELSE IF fail_idx # Len(rep_copy)
                /\ safe_report(vec_remove(report, fail_idx + 1)).safe THEN TRUE
        ELSE FALSE

(* report_as_vector on the tokens of a line *)
RECURSIVE report_as_vector_from(_, _)
report_as_vector_from(symbols, report_vec) ==
    IF symbols = <<>> THEN Ok(report_vec)
    ELSE LET num == parse_i32(Head(symbols))
         IN  IF num.tag = "Err" THEN Err("failed parsing to number")
             ELSE report_as_vector_from(Tail(symbols), Append(report_vec, num.val))

report_as_vector(symbols) == report_as_vector_from(symbols, <<>>)

RECURSIVE safe_reports_number_from(_, _)
safe_reports_number_from(lines, num_safe_reports) ==
    IF lines = <<>> THEN Ok(num_safe_reports)
    ELSE LET report_vec == report_as_vector(Head(lines))
         IN  IF report_vec.tag = "Err" THEN report_vec
             ELSE LET r == safe_report(report_vec.val)
                      report_safe == IF r.safe THEN TRUE
                                     ELSE problem_dampener(report_vec.val, r.idx)
                  IN  safe_reports_number_from(Tail(lines),
                          IF report_safe THEN num_safe_reports + 1
                          ELSE num_safe_reports)

safe_reports_number(lines) == safe_reports_number_from(lines, 0)

InitDay2 ==
    /\ ScanIdle
    /\ pc = "Day2"
    /\ \/ \E n \in 0..MaxReportLen : \E r \in [1..n -> Levels] :
              arg = [kind |-> "report", levels |-> r]
       \/ \E n \in 1..MaxReportLen : \E r \in [1..n -> Levels] :
              arg = [kind |-> "file", lines |-> << LineOf(r) >>]
       \/ \E f \in Day2OtherFiles :
              arg = [kind |-> "file", lines |-> f]
    /\ ret = NoRet

SafeReportsNumber ==
    /\ pc = "Day2"
    /\ arg.kind = "file"
    /\ ret' = safe_reports_number(arg.lines)
    /\ pc' = "safe_reports_number"
    /\ UNCHANGED arg
    /\ ScanIdleUnchanged

SafeReport ==
    /\ pc = "Day2"
    /\ arg.kind = "report"
    /\ ret' = Ok(safe_report(arg.levels))
    /\ pc' = "safe_report"
    /\ UNCHANGED arg
    /\ ScanIdleUnchanged

NextDay2 == SafeReportsNumber \/ SafeReport

SpecDay2 == InitDay2 /\ [][NextDay2]_vars

----------------------------------------------------------------------------
(* Reference notions for reports *)

Abs(n) == IF n < 0 THEN 0 - n ELSE n

IsSafe(r) ==
    /\ \A k \in 1..(Len(r) - 1) : Abs(r[k + 1] - r[k]) \in 1..3
    /\ \/ \A k \in 1..(Len(r) - 1) : r[k + 1] > r[k]
       \/ \A k \in 1..(Len(r) - 1) : r[k + 1] < r[k]

SafeWithOneRemoval(r) ==
    IsSafe(r) \/ \E k \in 0..(Len(r) - 1) : IsSafe(vec_remove(r, k))

(* the levels a line of one-digit tokens stands for *)
LevelsOf(line) == [k \in 1..Len(line) |-> DigitValue(line[k][1])]

OneDigitLines(f) ==
    \A k \in 1..Len(f) :
        Len(f[k]) >= 1 /\ \A t \in 1..Len(f[k]) : Len(f[k][t]) = 1 /\ IsDigit(f[k][t][1])

(* C12: safe_reports_number counts a report of one or more integers as safe
   exactly when it is safe as given or safe after removing some one level:
   the three retries of problem_dampener agree with trying every removal. *)
C12_DampenerIsBruteForce ==
    (pc = "safe_reports_number" /\ OneDigitLines(arg.lines)) =>
        ret = Ok(Cardinality({ k \in 1..Len(arg.lines) :
                                  SafeWithOneRemoval(LevelsOf(arg.lines[k])) }))

C12_Witness ==
    /\ pc = "safe_reports_number"
    /\ arg.lines = << LineOf(<<3, 4, 3, 2, 1>>) >>
    /\ ~IsSafe(<<3, 4, 3, 2, 1>>)
    /\ safe_report(<<3, 4, 3, 2, 1>>).idx = 1
    /\ ret = Ok(1)

(* the least index i (from 0) whose prefix report[0..=i] is not safe *)
FirstUnsafePrefix(r) ==
    CHOOSE i \in 0..(Len(r) - 1) :
        /\ ~IsSafe(SubSeq(r, 1, i + 1))
        /\ \A m \in 0..(i - 1) : IsSafe(SubSeq(r, 1, m + 1))

(* C19: safe_report returns (true, 0) exactly for the reports whose adjacent
   levels all differ by 1 to 3 in one direction, reports of length 0 and 1
   included; otherwise it returns (false, i - 1), i the least index whose
   prefix report[0..=i] is not safe, so the index is within 0..len-2. *)
C19_SafeReportResult ==
    pc = "safe_report" =>
        LET r == arg.levels
        IN  /\ ret.tag = "Ok"
            /\ ret.val.safe <=> IsSafe(r)
            /\ ret.val.safe => ret.val.idx = 0
            /\ Len(r) <= 1 => ret.val = [safe |-> TRUE, idx |-> 0]
            /\ ~ret.val.safe =>
                  /\ ret.val.idx = FirstUnsafePrefix(r) - 1
                  /\ ret.val.idx >= 0
                  /\ ret.val.idx <= Len(r) - 2

C19_Witness ==
    /\ pc = "safe_report"
    /\ arg.levels = <<1, 2, 3, 2, 1>>
    /\ ret = Ok([safe |-> FALSE, idx |-> 2])

----------------------------------------------------------------------------
(* Day 1 (src/day-1/src/lib.rs): difference of two lists of tokens *)

MinNumber == 8

MaxNumber == 11

MaxListLen == 2

(* the decimal token of a number below 100 *)
DecimalToken(n) ==
    IF n < 10 THEN << DigitChars[n + 1] >>
    ELSE << DigitChars[(n \div 10) + 1], DigitChars[(n % 10) + 1] >>

(* the token "asd" of test_difference_negative *)
Day1BadToken == <<"a","s","d">>

Day1Tokens == { DecimalToken(n) : n \in MinNumber..MaxNumber } \cup {Day1BadToken}

(* the lists of test_difference_success *)
Day1TestLists ==
    [list1 |-> << <<"3">>, <<"4">>, <<"2">>, <<"1">>, <<"3">>, <<"3">> >>,
     list2 |-> << <<"4">>, <<"3">>, <<"5">>, <<"3">>, <<"9">>, <<"3">> >>]

(* the byte of a character *)
CharCode(ch) ==
    IF IsDigit(ch) THEN 48 + DigitValue(ch)
    ELSE CASE ch = "+" -> 43
           [] ch = "-" -> 45
           [] ch = "a" -> 97
           [] ch = "d" -> 100
           [] ch = "s" -> 115

(* the order of &str: byte by byte, a proper prefix first *)
RECURSIVE str_less(_, _)
str_less(a, b) ==
    IF b = <<>> THEN FALSE
    ELSE IF a = <<>> THEN TRUE
    ELSE IF CharCode(Head(a)) # CharCode(Head(b))
         THEN CharCode(Head(a)) < CharCode(Head(b))
         ELSE str_less(Tail(a), Tail(b))

(* Vec<&str>::sort(): stable, ascending in the order of &str *)
RECURSIVE str_insert(_, _)
str_insert(sorted, x) ==
    IF sorted = <<>> THEN <<x>>
    ELSE IF str_less(x, Head(sorted)) THEN <<x>> \o sorted
    ELSE <<Head(sorted)>> \o str_insert(Tail(sorted), x)

RECURSIVE str_sort(_)
str_sort(list) ==
    IF list = <<>> THEN <<>>
    ELSE str_insert(str_sort(SubSeq(list, 1, Len(list) - 1)), list[Len(list)])

RECURSIVE difference_from(_, _, _, _)
difference_from(sorted_list1, sorted_list2, i, diff) ==
    IF i >= Len(sorted_list1) THEN Ok(diff)
    ELSE LET num1 == parse_i32(sorted_list1[i + 1])
         IN  IF num1.tag = "Err" THEN Err("failed parsing to number")
             ELSE IF i >= Len(sorted_list2)
                  THEN Err("failed reading symbol from List 2")
             ELSE LET num2 == parse_i32(sorted_list2[i + 1])
                  IN  IF num2.tag = "Err" THEN Err("failed parsing to number")
                      ELSE LET diff_i == num1.val - num2.val
                           IN  difference_from(sorted_list1, sorted_list2, i + 1,
                                   diff + (IF diff_i < 0 THEN 0 - diff_i ELSE diff_i))

difference(list1, list2) ==
    difference_from(str_sort(list1), str_sort(list2), 0, 0)

InitDay1 ==
    /\ ScanIdle
    /\ pc = "Day1"
    /\ \/ \E n \in 0..MaxListLen : \E m \in {k \in {n - 1, n} : k >= 0} :
              \E l1 \in [1..n -> Day1Tokens] : \E l2 \in [1..m -> Day1Tokens] :
                  arg = [list1 |-> l1, list2 |-> l2]
       \/ arg = Day1TestLists
    /\ ret = NoRet

Difference ==
    /\ pc = "Day1"
    /\ ret' = difference(arg.list1, arg.list2)
    /\ pc' = "difference"
    /\ UNCHANGED arg
    /\ ScanIdleUnchanged

NextDay1 == Difference

SpecDay1 == InitDay1 /\ [][NextDay1]_vars

----------------------------------------------------------------------------
(* Reference: numbers sorted ascending, paired by rank *)

RECURSIVE NumInsert(_, _)
NumInsert(sorted, x) ==
    IF sorted = <<>> THEN <<x>>
    ELSE IF x < Head(sorted) THEN <<x>> \o sorted
    ELSE <<Head(sorted)>> \o NumInsert(Tail(sorted), x)

RECURSIVE NumSort(_)
NumSort(list) ==
    IF list = <<>> THEN <<>>
    ELSE NumInsert(NumSort(Tail(list)), Head(list))

RECURSIVE SumAbsDiff(_, _)
SumAbsDiff(a, b) ==
    IF a = <<>> THEN 0
    ELSE Abs(Head(a) - Head(b)) + SumAbsDiff(Tail(a), Tail(b))

AllDecimal(list) == \A k \in 1..Len(list) : \A t \in 1..Len(list[k]) : IsDigit(list[k][t])

NumbersOf(list) == [k \in 1..Len(list) |-> digits_value(list[k], 0)]

(* C13 as stated: for two lists of the same length of decimal integers,
   difference returns the sum of |a_i - b_i|, a_i and b_i the i-th smallest
   numbers of list1 and list2. *)
C13_DifferenceOfNumericRanks ==
    (pc = "difference" /\ Len(arg.list1) = Len(arg.list2)
       /\ AllDecimal(arg.list1) /\ AllDecimal(arg.list2)) =>
        ret = Ok(SumAbsDiff(NumSort(NumbersOf(arg.list1)), NumSort(NumbersOf(arg.list2))))

----------------------------------------------------------------------------
(* Day 5 (src/day-5/src/lib.rs): page ordering rules and updates.
   A line is the sequence of its characters; the reader is the sequence of
   the lines of the file, the number of lines already consumed (pos) and the
   line whose read fails (err_at, 0 if none). *)

MaxRules == 3

MaxUpdates == 2

(* the rule lines of test_read_rules *)
Day5ExampleRules ==
    << <<"4","7","|","5","3">>, <<"9","7","|","1","3">>, <<"9","7","|","6","1">>,
       <<"9","7","|","4","7">>, <<"7","5","|","2","9">>, <<"6","1","|","1","3">>,
       <<"7","5","|","5","3">>, <<"2","9","|","1","3">>, <<"9","7","|","2","9">>,
       <<"5","3","|","2","9">>, <<"6","1","|","5","3">>, <<"9","7","|","5","3">>,
       <<"6","1","|","2","9">>, <<"4","7","|","1","3">>, <<"7","5","|","4","7">>,
       <<"9","7","|","7","5">>, <<"4","7","|","6","1">>, <<"7","5","|","6","1">>,
       <<"4","7","|","2","9">>, <<"7","5","|","1","3">>, <<"5","3","|","1","3">> >>

(* the update lines of test_sum *)
Day5ExampleUpdates ==
    << <<"7","5",",","4","7",",","6","1",",","5","3",",","2","9">>, <<"9","7",",","6","1",",","5","3",",","2","9",",","1","3">>, <<"7","5",",","2","9",",","1","3">>,
       <<"7","5",",","9","7",",","4","7",",","6","1",",","5","3">>, <<"6","1",",","1","3",",","2","9">>, <<"9","7",",","1","3",",","7","5",",","2","9",",","4","7">> >>

Day5ExampleFile == Day5ExampleRules \o << <<>> >> \o Day5ExampleUpdates

RuleLines ==
    { <<"1","|","2">>, <<"1","|","3">>, <<"2","|","3">>, <<"3","|","1">>,
      <<"1","|","2","|","3">> }

UpdateLines ==
    { <<"1",",","2",",","3">>, <<"2",",","1">>, <<"3">>, <<"1",",","3">>,
      <<"1","|","2">> }

Separators == { <<>>, << <<>> >> }

EmptyMap == [k \in {} |-> <<>>]

(* index of the first ch of l at or after i, 0 if there is none *)
RECURSIVE str_find(_, _, _)
str_find(l, ch, i) ==
    IF i > Len(l) THEN 0
    ELSE IF l[i] = ch THEN i
    ELSE str_find(l, ch, i + 1)

split_once(l, ch) ==
    LET i == str_find(l, ch, 1)
    IN  IF i = 0 THEN [tag |-> "None"]
        ELSE [tag |-> "Some", lower |-> SubSeq(l, 1, i - 1),
              greater |-> SubSeq(l, i + 1, Len(l))]

RECURSIVE split(_, _)
split(l, ch) ==
    LET i == str_find(l, ch, 1)
    IN  IF i = 0 THEN << l >>
        ELSE << SubSeq(l, 1, i - 1) >> \o split(SubSeq(l, i + 1, Len(l)), ch)

contains(v, x) == \E k \in 1..Len(v) : v[k] = x

(* faulty variant: a repeated key replaces its list *)
map_push_Overwrite(map, key, val) ==
    [k \in (DOMAIN map) \cup {key} |-> IF k = key THEN << val >> ELSE map[k]]

map_push(map, key, val) ==
    IF key \in DOMAIN map
    THEN [k \in DOMAIN map |-> IF k = key THEN Append(map[k], val) ELSE map[k]]
    ELSE [k \in (DOMAIN map) \cup {key} |-> IF k = key THEN << val >> ELSE map[k]]

RECURSIVE read_rules_from(_, _, _, _)
read_rules_from(lines, p, err_at, map) ==
    IF p >= Len(lines) THEN [ret |-> Ok(map), pos |-> p]
    ELSE IF err_at = p + 1 THEN [ret |-> Err("failed reading line"), pos |-> p]
    ELSE LET opt == split_once(lines[p + 1], "|")
         IN  IF opt.tag = "None" THEN [ret |-> Ok(map), pos |-> p + 1]
             ELSE read_rules_from(lines, p + 1, err_at,
                                  map_push(map, opt.lower, opt.greater))

read_rules(lines, p, err_at) == read_rules_from(lines, p, err_at, EmptyMap)

RECURSIVE all_listed_from(_, _, _)
all_listed_from(curr_greater, update_vec, j) ==
    IF j >= Len(update_vec) THEN TRUE
    ELSE IF ~ contains(curr_greater, update_vec[j + 1]) THEN FALSE
    ELSE all_listed_from(curr_greater, update_vec, j + 1)

RECURSIVE is_correctly_ordered_Adjacent_from(_, _, _)
is_correctly_ordered_Adjacent_from(rules, update_vec, i) ==
    IF i >= Len(update_vec) - 1 THEN TRUE
    ELSE IF update_vec[i + 1] \notin DOMAIN rules THEN FALSE
    ELSE IF ~ contains(rules[update_vec[i + 1]], update_vec[i + 2]) THEN FALSE
    ELSE is_correctly_ordered_Adjacent_from(rules, update_vec, i + 1)

(* faulty variant: only neighbouring pages are compared *)
is_correctly_ordered_Adjacent(rules, update_vec) ==
    is_correctly_ordered_Adjacent_from(rules, update_vec, 0)

RECURSIVE is_correctly_ordered_from(_, _, _)
is_correctly_ordered_from(rules, update_vec, i) ==
    IF i >= Len(update_vec) - 1 THEN TRUE
    ELSE IF update_vec[i + 1] \notin DOMAIN rules THEN FALSE
    ELSE IF ~ all_listed_from(rules[update_vec[i + 1]], update_vec, i + 1) THEN FALSE
    ELSE is_correctly_ordered_from(rules, update_vec, i + 1)

is_correctly_ordered(rules, update_vec) ==
    is_correctly_ordered_from(rules, update_vec, 0)

(* .parse::<i32>().unwrap_or(0) *)
parse_or_zero(tok) ==
    LET r == parse_i32(tok) IN IF r.tag = "Ok" THEN r.val ELSE 0

RECURSIVE correctly_ordered_sum_from(_, _, _, _, _)
correctly_ordered_sum_from(lines, p, err_at, rules, sum) ==
    IF p >= Len(lines) THEN [ret |-> Ok(sum), pos |-> p]
    ELSE IF err_at = p + 1 THEN [ret |-> Err("failed to read line"), pos |-> p]
    ELSE LET update_vec == split(lines[p + 1], ",")
         IN  IF ~ is_correctly_ordered(rules, update_vec)
             THEN correctly_ordered_sum_from(lines, p + 1, err_at, rules, sum)
             ELSE correctly_ordered_sum_from(lines, p + 1, err_at, rules,
                      sum + parse_or_zero(update_vec[(Len(update_vec) \div 2) + 1]))

correctly_ordered_sum(lines, p, err_at, rules) ==
    correctly_ordered_sum_from(lines, p, err_at, rules, 0)

Day5Unchanged ==
    UNCHANGED <<src, errAt, lines_vec, count, advances, result, fw_idx, fw_dir, fw_out>>

InitDay5 ==
    /\ ScanIdle
    /\ pc = "Day5"
    /\ \/ \E nr \in 0..MaxRules : \E nu \in 0..MaxUpdates :
              \E rs \in [1..nr -> RuleLines] : \E sep \in Separators :
                  \E us \in [1..nu -> UpdateLines] :
                      arg = [lines |-> rs \o sep \o us, err_at |-> 0,
                             rules |-> EmptyMap, start |-> 0]
       \/ \E e \in 0..Len(Day5ExampleFile) :
              arg = [lines |-> Day5ExampleFile, err_at |-> e,
                     rules |-> EmptyMap, start |-> 0]
    /\ ret = NoRet

(* main.rs: let rules = day_5::read_rules(&mut reader)? *)
ReadRules ==
    /\ pc = "Day5"
    /\ LET r == read_rules(arg.lines, pos, arg.err_at)
       IN  ret' = r.ret /\ pos' = r.pos
    /\ pc' = "read_rules"
    /\ UNCHANGED arg
    /\ Day5Unchanged

(* main.rs: let sum = day_5::correctly_ordered_sum(&mut reader, &rules)? *)
CorrectlyOrderedSum ==
    /\ pc = "read_rules"
    /\ ret.tag = "Ok"
    /\ LET r == correctly_ordered_sum(arg.lines, pos, arg.err_at, ret.val)
       IN  ret' = r.ret /\ pos' = r.pos
    /\ arg' = [arg EXCEPT !.rules = ret.val, !.start = pos]
    /\ pc' = "correctly_ordered_sum"
    /\ Day5Unchanged

NextDay5 == ReadRules \/ CorrectlyOrderedSum

SpecDay5 == InitDay5 /\ [][NextDay5]_vars

----------------------------------------------------------------------------
(* Reference: rule lines and update lines read directly off the characters *)

HasBar(l) == \E i \in 1..Len(l) : l[i] = "|"

FirstBar(l) == CHOOSE i \in 1..Len(l) : l[i] = "|" /\ \A j \in 1..(i - 1) : l[j] # "|"

KeyOf(l) == SubSeq(l, 1, FirstBar(l) - 1)

ValOf(l) == SubSeq(l, FirstBar(l) + 1, Len(l))

(* the first line with no '|', one past the end if every line has one *)
StopLine(lines) ==
    IF \A i \in 1..Len(lines) : HasBar(lines[i]) THEN Len(lines) + 1
    ELSE CHOOSE i \in 1..Len(lines) :
             ~ HasBar(lines[i]) /\ \A j \in 1..(i - 1) : HasBar(lines[j])

RulePrefix(lines) == SubSeq(lines, 1, StopLine(lines) - 1)

ValuesOf(k, prefix) ==
    LET IsRuleOfK(l) == KeyOf(l) = k
        sel == SelectSeq(prefix, IsRuleOfK)
    IN  [i \in 1..Len(sel) |-> ValOf(sel[i])]

ExpectedRules(lines) ==
    LET prefix == RulePrefix(lines)
    IN  [k \in { KeyOf(prefix[i]) : i \in 1..Len(prefix) } |-> ValuesOf(k, prefix)]

CutSet(l) == {0, Len(l) + 1} \cup { i \in 1..Len(l) : l[i] = "," }

Cut(l, k) == CHOOSE i \in CutSet(l) : Cardinality({ j \in CutSet(l) : j < i }) = k

PagesOf(l) ==
    [k \in 1..(Cardinality(CutSet(l)) - 1) |-> SubSeq(l, Cut(l, k - 1) + 1, Cut(l, k) - 1)]

DecimalPages(l) ==
    \A k \in 1..Len(PagesOf(l)) :
        PagesOf(l)[k] # <<>> /\ \A t \in 1..Len(PagesOf(l)[k]) : IsDigit(PagesOf(l)[k][t])

Listed(rules, a, b) == a \in DOMAIN rules /\ \E k \in 1..Len(rules[a]) : rules[a][k] = b

Ordered(rules, u) ==
    /\ \A i \in 1..Len(u) : \A j \in 1..Len(u) : i < j => Listed(rules, u[i], u[j])
    /\ \A i \in 1..(Len(u) - 1) : u[i] \in DOMAIN rules

MiddlePage(u) == u[(Len(u) \div 2) + 1]

RECURSIVE OrderedMiddleSum(_, _, _)
OrderedMiddleSum(rules, lines, i) ==
    IF i >= Len(lines) THEN 0
    ELSE (IF Ordered(rules, PagesOf(lines[i + 1]))
          THEN digits_value(MiddlePage(PagesOf(lines[i + 1])), 0) ELSE 0)
         + OrderedMiddleSum(rules, lines, i + 1)

(* C14: when every update line read is a comma-separated list of decimal
   page numbers and no read fails, correctly_ordered_sum returns the sum of
   the page at index floor(len/2) over exactly the updates in which, for
   every i < j, page j is listed in rules[page i] (so a non-final page that
   is no key of rules makes the update incorrectly ordered); the other
   updates contribute nothing. *)
C14_SumOfOrderedMiddles ==
    (pc = "correctly_ordered_sum" /\ arg.err_at = 0
       /\ \A i \in (arg.start + 1)..Len(arg.lines) : DecimalPages(arg.lines[i])) =>
        ret = Ok(OrderedMiddleSum(arg.rules, arg.lines, arg.start))

C14_Witness ==
    /\ pc = "correctly_ordered_sum" /\ arg.err_at = 0
    /\ \A i \in (arg.start + 1)..Len(arg.lines) : DecimalPages(arg.lines[i])
    /\ \E i \in (arg.start + 1)..Len(arg.lines) :
           Len(PagesOf(arg.lines[i])) >= 3 /\ Ordered(arg.rules, PagesOf(arg.lines[i]))
    /\ \E i \in (arg.start + 1)..Len(arg.lines) :
           \E k \in 1..(Len(PagesOf(arg.lines[i])) - 1) :
               PagesOf(arg.lines[i])[k] \notin DOMAIN arg.rules
    /\ \E i \in (arg.start + 1)..Len(arg.lines) :
           /\ \A k \in 1..(Len(PagesOf(arg.lines[i])) - 1) :
                  PagesOf(arg.lines[i])[k] \in DOMAIN arg.rules
           /\ ~ Ordered(arg.rules, PagesOf(arg.lines[i]))
    /\ ret.tag = "Ok" /\ ret.val > 0

(* C20: when no read fails, read_rules returns the map whose keys are the
   left-hand sides of the lines before the first line with no '|', each
   mapped to the right-hand sides (split at the first '|') of its lines in
   input order, duplicates kept; the reader has consumed that first line
   with no '|' and nothing after it. *)
C20_RulesUpToFirstBarlessLine ==
    (pc = "read_rules"
       /\ (arg.err_at = 0 \/ arg.err_at > Min(StopLine(arg.lines), Len(arg.lines)))) =>
        /\ ret = Ok(ExpectedRules(arg.lines))
        /\ pos = Min(StopLine(arg.lines), Len(arg.lines))

C20_Witness ==
    /\ pc = "read_rules" /\ arg.err_at = 0 /\ ret.tag = "Ok"
    /\ \E k \in DOMAIN ret.val :
           \E a \in 1..Len(ret.val[k]) : \E b \in 1..Len(ret.val[k]) :
               a < b /\ ret.val[k][a] = ret.val[k][b]
    /\ \E k \in DOMAIN ret.val : \E a \in 1..Len(ret.val[k]) : HasBar(ret.val[k][a])
    /\ StopLine(arg.lines) = pos /\ pos < Len(arg.lines)
    /\ \E i \in (pos + 1)..Len(arg.lines) : HasBar(arg.lines[i])

----------------------------------------------------------------------------
(* Day 3 (src/day-3/src/lib.rs): dropping the disabled instructions *)

MaxInstructions == 6

Instructions == {"do()", "don't()", "mul(2,4)", "mul(8,5)"}

(* the vector of test_filter_disabled_success *)
Day3TestVector == <<"mul(2,4)", "don't()", "mul(5,5)", "mul(11,8)", "do()", "mul(8,5)">>

RECURSIVE filter_disabled_DoIgnored_from(_, _, _, _)
filter_disabled_DoIgnored_from(instructions, i, enabled, filtered) ==
    IF i >= Len(instructions) THEN Ok(filtered)
    ELSE LET instruction == instructions[i + 1]
         IN  IF instruction = "don't()"
             THEN filter_disabled_DoIgnored_from(instructions, i + 1, FALSE, filtered)
             ELSE IF instruction = "do()"
             THEN filter_disabled_DoIgnored_from(instructions, i + 1, enabled, filtered)
             ELSE IF enabled
             THEN filter_disabled_DoIgnored_from(instructions, i + 1, enabled,
                                                 Append(filtered, instruction))
             ELSE filter_disabled_DoIgnored_from(instructions, i + 1, enabled, filtered)

(* faulty variant: do() does not enable again *)
filter_disabled_DoIgnored(instructions) ==
    filter_disabled_DoIgnored_from(instructions, 0, TRUE, <<>>)

RECURSIVE filter_disabled_from(_, _, _, _)
filter_disabled_from(instructions, i, enabled, filtered) ==
    IF i >= Len(instructions) THEN Ok(filtered)
    ELSE LET instruction == instructions[i + 1]
         IN  IF instruction = "don't()"
             THEN filter_disabled_from(instructions, i + 1, FALSE, filtered)
             ELSE IF instruction = "do()"
             THEN filter_disabled_from(instructions, i + 1, TRUE, filtered)
             ELSE IF enabled
             THEN filter_disabled_from(instructions, i + 1, enabled,
                                       Append(filtered, instruction))
             ELSE filter_disabled_from(instructions, i + 1, enabled, filtered)

filter_disabled(instructions) == filter_disabled_from(instructions, 0, TRUE, <<>>)

InitDay3 ==
    /\ ScanIdle
    /\ pc = "Day3"
    /\ \/ \E n \in 0..MaxInstructions : \E v \in [1..n -> Instructions] :
              arg = [instructions |-> v]
       \/ arg = [instructions |-> Day3TestVector]
    /\ ret = NoRet

FilterDisabled ==
    /\ pc = "Day3"
    /\ ret' = filter_disabled(arg.instructions)
    /\ pc' = "filter_disabled"
    /\ UNCHANGED arg
    /\ ScanIdleUnchanged

NextDay3 == FilterDisabled

SpecDay3 == InitDay3 /\ [][NextDay3]_vars

----------------------------------------------------------------------------
(* Reference: the most recent toggle before a position *)

IsToggle(x) == x = "do()" \/ x = "don't()"

TogglesBefore(v, i) == { j \in 1..(i - 1) : IsToggle(v[j]) }

LastToggleBefore(v, i) ==
    CHOOSE j \in TogglesBefore(v, i) : \A k \in TogglesBefore(v, i) : k <= j

KeptAt(v, i) ==
    /\ ~ IsToggle(v[i])
    /\ TogglesBefore(v, i) = {} \/ v[LastToggleBefore(v, i)] = "do()"

KeptSubsequence(v) ==
    LET Keep(i) == KeptAt(v, i)
        idx == SelectSeq([i \in 1..Len(v) |-> i], Keep)
    IN  [k \in 1..Len(idx) |-> v[idx[k]]]

(* C15: filter_disabled returns, in order, exactly the instructions other
   than do() and don't() whose most recent preceding toggle is do() or that
   have no preceding toggle; do() and don't() never appear in the output. *)
C15_KeepsEnabledInstructions ==
    pc = "filter_disabled" =>
        /\ ret = Ok(KeptSubsequence(arg.instructions))
        /\ \A k \in 1..Len(ret.val) : ~ IsToggle(ret.val[k])

C15_Witness ==
    /\ pc = "filter_disabled"
    /\ \E a \in 1..Len(arg.instructions) : \E b \in 1..Len(arg.instructions) :
       \E c \in 1..Len(arg.instructions) : \E d \in 1..Len(arg.instructions) :
       \E e \in 1..Len(arg.instructions) :
           /\ a < b /\ b < c /\ c < d /\ d < e
           /\ KeptAt(arg.instructions, a)
           /\ arg.instructions[b] = "don't()"
           /\ ~ IsToggle(arg.instructions[c])
           /\ arg.instructions[d] = "do()"
           /\ KeptAt(arg.instructions, e)
    /\ Len(ret.val) >= 2
    /\ Len(ret.val) < Cardinality({ i \in 1..Len(arg.instructions) : ~ IsToggle(arg.instructions[i]) })

====
